---- MODULE Spec2Model ----
(***************************************************************************)
(* A model of dbutton, the paginated inline-button list controller         *)
(* (src/dbutton/button.py) and of its filter/paginate engine                *)
(* (src/dbutton/utils.py).                                                  *)
(*                                                                          *)
(* Python values are modelled as tagged records (Val), mappings (records,   *)
(* filter sets, callback payloads) as functions from a set of string keys   *)
(* to Val, and serialized callback data as a sequence of JSON lexemes.      *)
(* The separator of a text line, an em-dash between two spaces in the       *)
(* source, is written " -- " here, and the navigation labels, guillemets    *)
(* in the source, "<<" and ">>".                                            *)
(***************************************************************************)
EXTENDS Integers, Sequences, FiniteSets, TLC

(***************************************************************************)
(* Bounds of the model.                                                     *)
(***************************************************************************)
MaxRecords == 3
MaxPageSize == 2

(***************************************************************************)
(* Python values.                                                           *)
(***************************************************************************)
IntV(n) == [t |-> "int", n |-> n, s |-> ""]
StrV(s) == [t |-> "str", n |-> 0, s |-> s]
NoneV == [t |-> "none", n |-> 0, s |-> ""]

\* str(v)
Str(v) ==
    CASE v.t = "int" -> ToString(v.n)
      [] v.t = "str" -> v.s
      [] OTHER -> "None"

\* str.lower(), over the strings of the model
Lower(s) ==
    CASE s = "Active" -> "active"
      [] s = "ACTIVE" -> "active"
      [] s = "Ann" -> "ann"
      [] s = "No data available." -> "no data available."
      [] s = "None" -> "none"
      [] OTHER -> s

\* {} : the mapping with no key
EmptyDict == [k \in {} |-> NoneV]

\* dict.get(key, default)
Get(d, key, default) == IF key \in DOMAIN d THEN d[key] ELSE default

Min(a, b) == IF a < b THEN a ELSE b
Max(a, b) == IF a > b THEN a ELSE b

\* data[start:end], the slice of a Python list
Slice(data, start, end) ==
    LET n == Len(data)
        norm(i) == IF i < 0 THEN Max(n + i, 0) ELSE Min(i, n)
        lo == norm(start)
        hi == norm(end)
    IN  IF lo >= hi THEN <<>> ELSE SubSeq(data, lo + 1, hi)

(***************************************************************************)
(* utils.py                                                                 *)
(***************************************************************************)
\* the comparison without lower()
Matches_case_sensitive(item, filters) ==
    \A key \in DOMAIN filters :
        Str(Get(item, key, StrV(""))) = Str(filters[key])

\* the test of one record against every key of the filters
Matches(item, filters) ==
    \A key \in DOMAIN filters :
        Lower(Str(Get(item, key, StrV("")))) = Lower(Str(filters[key]))

\* the loop putting each match in front of the result
RECURSIVE FilterSeq_reversed(_, _)
FilterSeq_reversed(data, filters) ==
    IF data = <<>> THEN <<>>
    ELSE LET rest == FilterSeq_reversed(Tail(data), filters)
         IN  IF Matches(Head(data), filters) THEN rest \o <<Head(data)>> ELSE rest

RECURSIVE FilterSeq(_, _)
FilterSeq(data, filters) ==
    IF data = <<>> THEN <<>>
    ELSE LET rest == FilterSeq(Tail(data), filters)
         IN  IF Matches(Head(data), filters) THEN <<Head(data)>> \o rest ELSE rest

apply_filters(data, filters) ==
    IF DOMAIN filters = {} THEN data ELSE FilterSeq(data, filters)

\* paginate without the floor of one page
paginate_no_floor(data, page, page_size) ==
    LET total == Len(data)
        total_pages == (total + page_size - 1) \div page_size
        start == (page - 1) * page_size
        end == start + page_size
    IN  [slice |-> Slice(data, start, end), total_pages |-> total_pages]

\* paginate taking the page number as 0-based
paginate_zero_based(data, page, page_size) ==
    LET total == Len(data)
        total_pages == Max(1, (total + page_size - 1) \div page_size)
        start == page * page_size
        end == start + page_size
    IN  [slice |-> Slice(data, start, end), total_pages |-> total_pages]

paginate(data, page, page_size) ==
    LET total == Len(data)
        total_pages == Max(1, (total + page_size - 1) \div page_size)
        start == (page - 1) * page_size
        end == start + page_size
    IN  [slice |-> Slice(data, start, end), total_pages |-> total_pages]

(***************************************************************************)
(* The inputs of the model.                                                 *)
(***************************************************************************)
Ann == [name |-> StrV("Ann"), status |-> StrV("Active")]
Cy == [name |-> StrV("cy"), level |-> IntV(1)]
Records == {Ann, Cy}

DataSources == UNION {[1..n -> Records] : n \in 0..MaxRecords}

\* no filter, a filter that differs from Ann's status in case only, and a
\* filter that Cy matches by its missing status and its stringified level
FilterSets ==
    { EmptyDict,
      [status |-> StrV("ACTIVE")],
      [status |-> StrV(""), level |-> StrV("1")] }

\* the field lists given at construction: 10 and 11 fields
TenFields == <<"name", "status", "level", "f4", "f5", "f6", "f7", "f8", "f9", "f10">>
FieldLists == { TenFields, TenFields \o <<"f11">> }

PageSizes == 1..MaxPageSize

(***************************************************************************)
(* Callback data.  A serialized token is a sequence of JSON lexemes; a      *)
(* structured payload is a mapping from string keys to Val.                 *)
(***************************************************************************)
Punct(c) == [k |-> "punct", s |-> c, n |-> 0]
LexStr(s) == [k |-> "str", s |-> s, n |-> 0]
LexInt(n) == [k |-> "int", s |-> "", n |-> n]
LexNull == [k |-> "null", s |-> "", n |-> 0]

\* the JSON text of a scalar
ValLex(v) ==
    CASE v.t = "int" -> LexInt(v.n)
      [] v.t = "str" -> LexStr(v.s)
      [] OTHER -> LexNull

\* the Python value of a JSON scalar
LexVal(l) ==
    CASE l.k = "int" -> IntV(l.n)
      [] l.k = "str" -> StrV(l.s)
      [] OTHER -> NoneV

IsScalarLex(l) == l.k \in {"int", "str", "null"}

\* the keys of a payload in the order in which build_message inserts them
KeyOrder == <<"action", "index", "page">>

RECURSIVE DumpMembers(_, _, _)
DumpMembers(d, i, first) ==
    IF i > Len(KeyOrder) THEN <<>>
    ELSE IF KeyOrder[i] \notin DOMAIN d THEN DumpMembers(d, i + 1, first)
    ELSE (IF first THEN <<>> ELSE <<Punct(",")>>)
         \o <<LexStr(KeyOrder[i]), Punct(":"), ValLex(d[KeyOrder[i]])>>
         \o DumpMembers(d, i + 1, FALSE)

\* json.dumps of a payload
json_dumps(d) == <<Punct("{")>> \o DumpMembers(d, 1, TRUE) \o <<Punct("}")>>

ParseError == [ok |-> FALSE, kind |-> "error", d |-> EmptyDict, v |-> NoneV]
ParsedDict(d) == [ok |-> TRUE, kind |-> "dict", d |-> d, v |-> NoneV]
ParsedScalar(v) == [ok |-> TRUE, kind |-> "scalar", d |-> EmptyDict, v |-> v]

\* the members of a JSON object, toks starting at a key; a repeated key
\* keeps its last value
RECURSIVE ParseMembers(_, _)
ParseMembers(toks, acc) ==
    IF Len(toks) < 4 THEN ParseError
    ELSE IF toks[1].k # "str" \/ toks[2] # Punct(":") \/ ~IsScalarLex(toks[3])
    THEN ParseError
    ELSE LET key == toks[1].s
             acc2 == [x \in DOMAIN acc \cup {key} |->
                         IF x = key THEN LexVal(toks[3]) ELSE acc[x]]
         IN  IF toks[4] = Punct("}")
             THEN (IF Len(toks) = 4 THEN ParsedDict(acc2) ELSE ParseError)
             ELSE IF toks[4] = Punct(",")
             THEN ParseMembers(SubSeq(toks, 5, Len(toks)), acc2)
             ELSE ParseError

\* json.loads of a text: a mapping, a scalar, or a decoding error
json_loads(text) ==
    IF text = <<>> THEN ParseError
    ELSE IF Len(text) = 1 /\ IsScalarLex(text[1]) THEN ParsedScalar(LexVal(text[1]))
    ELSE IF text[1] # Punct("{") THEN ParseError
    ELSE IF text = <<Punct("{"), Punct("}")>> THEN ParsedDict(EmptyDict)
    ELSE ParseMembers(Tail(text), EmptyDict)

\* the deserializers a controller is constructed with: json.loads, or a
\* custom one that raises the named exception on a text it cannot decode
Deserializers == {"json", "custom"}

\* the exception the deserializer raises on a malformed text
DecodeException(deserializer) ==
    IF deserializer = "json" THEN "JSONDecodeError" ELSE "ValueError"

\* the exceptions that _handle_callback catches around the deserializer
CaughtExceptions == {"JSONDecodeError", "TypeError"}

\* the frameworks whose classes _init_framework_handlers may find installed
Frameworks == {"python-telegram-bot", "aiogram", "pyrogram"}
HandlerEnvs == { {"python-telegram-bot"}, {"aiogram", "pyrogram"} }

\* the environments a controller is constructed in: the default deserializer
\* where python-telegram-bot is installed, a custom one where it is not
Setups ==
    { [deser |-> "json", env |-> {"python-telegram-bot"}],
      [deser |-> "custom", env |-> {"aiogram", "pyrogram"}] }

\* the payloads of the buttons that build_message makes
ButtonPayloads ==
    { [action |-> StrV("next")], [action |-> StrV("prev")] }
    \cup { [action |-> StrV("detail"), index |-> IntV(i), page |-> IntV(pg)] :
             i \in 0..(MaxPageSize - 1), pg \in 1..MaxRecords }

\* the index of a detail payload: an integer from -1 to one past the longest
\* page, or a value that is not an integer
IndexValues == {IntV(i) : i \in -1..MaxPageSize} \cup {StrV("1"), NoneV}

\* payloads that no button carries: no action, an unknown action, a detail
\* without index or with any of the index values
OtherPayloads ==
    { EmptyDict, [action |-> StrV("noop")], [action |-> StrV("detail")] }
    \cup { [action |-> StrV("detail"), index |-> i] : i \in IndexValues }

Payloads == ButtonPayloads \cup OtherPayloads

\* the strings given to _handle_callback that are not a serialized mapping:
\* texts that decode to another value, and texts that do not decode
ScalarTexts == { <<LexInt(5)>>, <<LexNull>> }
MalformedTexts ==
    { <<>>, <<Punct("{"), LexStr("action"), Punct(":"), LexStr("next")>>,
      <<Punct("{"), LexStr("action"), Punct(":"), LexStr("next"), Punct("}"), Punct("}")>> }

\* a callback token: a string (text) or a structured payload (d); class and,
\* for a string, d say what the token was made from
\* (row and col: the place in the rendered grid of the button pressed, 0 for
\* a token that comes from elsewhere)
DictToken(d) ==
    [isstr |-> FALSE, class |-> "mapping", text |-> <<>>, d |-> d, row |-> 0, col |-> 0]
StrToken(d) ==
    [isstr |-> TRUE, class |-> "mapping", text |-> json_dumps(d), d |-> d,
     row |-> 0, col |-> 0]
ScalarToken(x) ==
    [isstr |-> TRUE, class |-> "scalar", text |-> x, d |-> EmptyDict, row |-> 0, col |-> 0]
MalformedToken(x) ==
    [isstr |-> TRUE, class |-> "malformed", text |-> x, d |-> EmptyDict,
     row |-> 0, col |-> 0]

\* the tokens given to _handle_callback: the button payloads as strings, the
\* others as structured payloads, and some of each in the other form
Tokens ==
    { StrToken(d) : d \in ButtonPayloads }
    \cup { DictToken(d) : d \in OtherPayloads }
    \cup { DictToken([action |-> StrV("next")]), DictToken([action |-> StrV("prev")]),
           StrToken([action |-> StrV("noop")]),
           StrToken([action |-> StrV("detail"), index |-> StrV("1")]) }
    \cup { ScalarToken(x) : x \in ScalarTexts }
    \cup { MalformedToken(x) : x \in MalformedTexts }

\* what a call was given, as far as the claims speak of it
Absent == [t |-> "absent", n |-> 0, s |-> ""]
NoArg ==
    [class |-> "none", action |-> Absent, index |-> Absent, page |-> Absent,
     kwargs |-> EmptyDict, fields |-> <<>>, row |-> 0, col |-> 0]
TokenArg(tok) ==
    [NoArg EXCEPT !.class = tok.class,
                  !.action = Get(tok.d, "action", Absent),
                  !.index = Get(tok.d, "index", Absent),
                  !.page = Get(tok.d, "page", Absent),
                  !.row = tok.row,
                  !.col = tok.col]
FiltersArg(kwargs) == [NoArg EXCEPT !.class = "filters", !.kwargs = kwargs]
ConstructArg(flds, f) ==
    [NoArg EXCEPT !.class = "construct", !.kwargs = f, !.fields = flds]

(***************************************************************************)
(* button.py: the state of a dbutton instance.                              *)
(***************************************************************************)
VARIABLES
    phase,          \* "new", "ready" (constructed) or "failed" (__init__ raised)
    raw_data,
    fields,
    page_size,
    filters,
    current_page,
    deserializer,   \* _deserialize_callback, with its paired _serialize_callback
    handlers,       \* the keys of _handlers
    filtered,
    page_data,
    total_pages,
    selected_item,  \* <<>> while the attribute is not set, else <<its value>>
    ret,            \* the outcome of the last call
    arg,            \* what the last call was given
    rendered,       \* the output of the last call, when it was a build_message
    event,          \* the outcome of the last call, when it was an adapter's
    walk            \* the page slices seen since page 1 through next_page alone

vars == <<phase, raw_data, fields, page_size, filters, current_page, deserializer,
          handlers, filtered, page_data, total_pages, selected_item, ret, arg,
          rendered, event, walk>>

\* the state of the controller that the operations read and write
View == <<raw_data, fields, page_size, filters, current_page, filtered,
          page_data, total_pages, selected_item>>

\* the value of selected_item that would say "no selection" (None); the
\* records are the other values
NoSelection == [none |-> NoneV]

NoGrid == <<>>
Ret(op, raised, ok, msg) ==
    [op |-> op, raised |-> raised, ok |-> ok, msg |-> msg,
     text |-> "", grid |-> NoGrid]
RetRender(text, grid) ==
    [op |-> "render", raised |-> "none", ok |-> TRUE, msg |-> "",
     text |-> text, grid |-> grid]

NoRender == [some |-> FALSE, twice |-> FALSE, text |-> "", grid |-> NoGrid]

\* rendered after one more render; twice tells that the call before it was a
\* render too
Rendered(text, grid) == [some |-> TRUE, twice |-> rendered.some, text |-> text, grid |-> grid]

\* rendered is forgotten by every call that is not a build_message
ForgetRendered == rendered' = NoRender

\* no adapter was called last
NoEvent ==
    [adapter |-> "none", raised |-> "none", returned |-> "none", edits |-> 0]

\* an adapter's handle_callback ended by the exception exc before any edit
EventRaised(adapter, exc) ==
    [NoEvent EXCEPT !.adapter = adapter, !.raised = exc]

\* the walk is over at every call but next_page and build_message
EndWalk == walk' = <<>>

Init ==
    /\ phase = "new"
    /\ raw_data = <<>>
    /\ fields = <<>>
    /\ page_size = 1
    /\ filters = EmptyDict
    /\ current_page = 1
    /\ deserializer = "json"
    /\ handlers = {}
    /\ filtered = <<>>
    /\ page_data = <<>>
    /\ total_pages = 1
    /\ selected_item = <<>>
    /\ ret = Ret("none", "none", TRUE, "")
    /\ arg = NoArg
    /\ rendered = NoRender
    /\ event = NoEvent
    /\ walk = <<>>

\* _refresh that always stores the slice of the first page
Refresh_first_slice(f, page) ==
    LET flt == apply_filters(raw_data', f)
        pg == paginate(flt, 1, page_size')
    IN  /\ filtered' = flt
        /\ page_data' = pg.slice
        /\ total_pages' = pg.total_pages

\* _refresh, given the filters and the page to show
Refresh(f, page) ==
    LET flt == apply_filters(raw_data', f)
        pg == paginate(flt, page, page_size')
    IN  /\ filtered' = flt
        /\ page_data' = pg.slice
        /\ total_pages' = pg.total_pages

\* __init__
Construct(data_source, flds, psize, f, deser, env) ==
    /\ phase = "new"
    /\ arg' = ConstructArg(flds, f)
    /\ IF Len(flds) > 10
       THEN /\ phase' = "failed"
            /\ ret' = Ret("construct", "ValueError", FALSE, "Maximum 10 fields allowed")
            /\ UNCHANGED <<raw_data, fields, page_size, filters, current_page,
                           deserializer, handlers, filtered, page_data, total_pages,
                           selected_item, rendered, event, walk>>
       ELSE /\ phase' = "ready"
            /\ raw_data' = data_source
            /\ fields' = flds
            /\ page_size' = psize
            /\ filters' = f
            /\ current_page' = 1
            /\ deserializer' = deser
            /\ handlers' = env
            /\ Refresh(f, 1)
            /\ ret' = Ret("construct", "none", TRUE, "")
            /\ walk' = <<page_data'>>
            /\ UNCHANGED <<selected_item, rendered, event>>

\* set_filters dropping the selection
set_filters_clears_selection(kwargs) ==
    /\ phase = "ready"
    /\ filters' = kwargs
    /\ current_page' = 1
    /\ UNCHANGED <<phase, raw_data, fields, page_size, deserializer, handlers>>
    /\ selected_item' = <<>>
    /\ Refresh(kwargs, 1)
    /\ ret' = Ret("set_filters", "none", TRUE, "")
    /\ arg' = FiltersArg(kwargs)
    /\ ForgetRendered
    /\ walk' = <<page_data'>>
    /\ UNCHANGED event

set_filters(kwargs) ==
    /\ phase = "ready"
    /\ filters' = kwargs
    /\ current_page' = 1
    /\ UNCHANGED <<phase, raw_data, fields, page_size, deserializer, handlers, selected_item>>
    /\ Refresh(kwargs, 1)
    /\ ret' = Ret("set_filters", "none", TRUE, "")
    /\ arg' = FiltersArg(kwargs)
    /\ ForgetRendered
    /\ walk' = <<page_data'>>
    /\ UNCHANGED event

\* next_page with a guard that lets the last page advance
NextPageBody_past_last ==
    IF current_page <= total_pages
    THEN /\ current_page' = current_page + 1
         /\ UNCHANGED <<raw_data, page_size, filters>>
         /\ Refresh(filters, current_page + 1)
    ELSE UNCHANGED <<raw_data, page_size, filters, current_page, filtered, page_data, total_pages>>

\* the body of next_page, shared with the "next" callback
NextPageBody ==
    IF current_page < total_pages
    THEN /\ current_page' = current_page + 1
         /\ UNCHANGED <<raw_data, page_size, filters>>
         /\ Refresh(filters, current_page + 1)
    ELSE UNCHANGED <<raw_data, page_size, filters, current_page, filtered, page_data, total_pages>>

\* prev_page going back to the first page instead of one page
PrevPageBody_to_first ==
    IF current_page > 1
    THEN /\ current_page' = 1
         /\ UNCHANGED <<raw_data, page_size, filters>>
         /\ Refresh(filters, 1)
    ELSE UNCHANGED <<raw_data, page_size, filters, current_page, filtered, page_data, total_pages>>

\* the body of prev_page, shared with the "prev" callback
PrevPageBody ==
    IF current_page > 1
    THEN /\ current_page' = current_page - 1
         /\ UNCHANGED <<raw_data, page_size, filters>>
         /\ Refresh(filters, current_page - 1)
    ELSE UNCHANGED <<raw_data, page_size, filters, current_page, filtered, page_data, total_pages>>

\* next_page answering True on the last page too
next_page_reports_true ==
    /\ phase = "ready"
    /\ NextPageBody
    /\ UNCHANGED <<phase, fields, deserializer, handlers, selected_item>>
    /\ ret' = Ret("next_page", "none", TRUE, "")
    /\ arg' = NoArg
    /\ ForgetRendered
    /\ walk' = IF walk = <<>> THEN <<>>
               ELSE IF ret'.ok THEN Append(walk, page_data') ELSE walk
    /\ event' = NoEvent

next_page ==
    /\ phase = "ready"
    /\ NextPageBody
    /\ UNCHANGED <<phase, fields, deserializer, handlers, selected_item>>
    /\ ret' = Ret("next_page", "none", current_page < total_pages, "")
    /\ arg' = NoArg
    /\ ForgetRendered
    /\ walk' = IF walk = <<>> THEN <<>>
               ELSE IF ret'.ok THEN Append(walk, page_data') ELSE walk
    /\ event' = NoEvent

prev_page ==
    /\ phase = "ready"
    /\ PrevPageBody
    /\ UNCHANGED <<phase, fields, deserializer, handlers, selected_item>>
    /\ ret' = Ret("prev_page", "none", current_page > 1, "")
    /\ arg' = NoArg
    /\ ForgetRendered
    /\ EndWalk
    /\ event' = NoEvent

RECURSIVE Join(_, _)
\* sep.join(parts)
Join(parts, sep) ==
    IF parts = <<>> THEN ""
    ELSE IF Len(parts) = 1 THEN parts[1]
    ELSE parts[1] \o sep \o Join(Tail(parts), sep)

\* one line of the message text
TextLine(idx, record) ==
    Join(<<ToString(idx)>> \o [i \in 1..Len(fields) |-> Str(Get(record, fields[i], StrV("")))],
         " -- ")

MessageText ==
    LET lines == [i \in 1..Len(page_data) |-> TextLine(i, page_data[i])]
        text == Join(lines, "\n")
    IN  IF text = "" THEN "No data available." ELSE text

\* _serialize_callback leaving the index out of the token
Serialize_without_index(d) == json_dumps([k \in DOMAIN d \ {"index"} |-> d[k]])

\* _serialize_callback
Serialize(d) == json_dumps(d)

\* _deserialize_callback
Deserialize(text) == json_loads(text)

Button(label, callback_data) == [label |-> label, token |-> callback_data]

\* the item buttons carrying the 1-based number as index
ButtonRows_one_based ==
    LET items == [i \in 1..Len(page_data) |->
                    << Button(ToString(i),
                              Serialize([action |-> StrV("detail"),
                                         index |-> IntV(i),
                                         page |-> IntV(current_page)])) >>]
        prev == IF current_page > 1
                THEN << Button("<<", Serialize([action |-> StrV("prev")])) >>
                ELSE <<>>
        next == IF current_page < total_pages
                THEN << Button(">>", Serialize([action |-> StrV("next")])) >>
                ELSE <<>>
        nav_buttons == prev \o next
    IN  IF nav_buttons # <<>> THEN items \o <<nav_buttons>> ELSE items

ButtonRows ==
    LET items == [i \in 1..Len(page_data) |->
                    << Button(ToString(i),
                              Serialize([action |-> StrV("detail"),
                                         index |-> IntV(i - 1),
                                         page |-> IntV(current_page)])) >>]
        prev == IF current_page > 1
                THEN << Button("<<", Serialize([action |-> StrV("prev")])) >>
                ELSE <<>>
        next == IF current_page < total_pages
                THEN << Button(">>", Serialize([action |-> StrV("next")])) >>
                ELSE <<>>
        nav_buttons == prev \o next
    IN  IF nav_buttons # <<>> THEN items \o <<nav_buttons>> ELSE items

\* the entry of _handlers that build_message uses, "none" when there is none
Handler(framework) ==
    IF framework \in handlers THEN framework
    ELSE IF "python-telegram-bot" \in handlers THEN "python-telegram-bot"
    ELSE "none"

FrameworkArgs == Frameworks \cup {"other"}

\* build_message dropping the selection while it renders
build_message_clears_selection(framework) ==
    /\ phase = "ready"
    /\ UNCHANGED <<phase, raw_data, fields, page_size, filters, current_page,
                   deserializer, handlers, filtered, page_data, total_pages>>
    /\ selected_item' = <<>>
    /\ arg' = NoArg
    /\ event' = NoEvent
    /\ UNCHANGED walk
    /\ IF Handler(framework) = "none"
       THEN /\ ret' = Ret("render", "ValueError", FALSE, "No handler found for framework")
            /\ ForgetRendered
       ELSE /\ ret' = RetRender(MessageText, ButtonRows)
            /\ rendered' = Rendered(MessageText, ButtonRows)

build_message(framework) ==
    /\ phase = "ready"
    /\ UNCHANGED <<phase, raw_data, fields, page_size, filters, current_page,
                   deserializer, handlers, filtered, page_data, total_pages,
                   selected_item>>
    /\ arg' = NoArg
    /\ event' = NoEvent
    /\ UNCHANGED walk
    /\ IF Handler(framework) = "none"
       THEN /\ ret' = Ret("render", "ValueError", FALSE, "No handler found for framework")
            /\ ForgetRendered
       ELSE /\ ret' = RetRender(MessageText, ButtonRows)
            /\ rendered' = Rendered(MessageText, ButtonRows)

\* the detail branch without the lower bound: a negative index counts from
\* the end of the page, as Python list indexing does
DetailBody_no_lower_bound(data) ==
    LET index == Get(data, "index", IntV(0))
        n == Len(page_data)
    IN  IF index.t # "int"
        THEN /\ ret' = Ret("decode", "TypeError", FALSE, "")
             /\ UNCHANGED selected_item
        ELSE IF index.n < n /\ index.n >= -n /\ n > 0
        THEN /\ selected_item' = <<page_data[IF index.n < 0 THEN n + index.n + 1 ELSE index.n + 1]>>
             /\ ret' = Ret("decode", "none", TRUE, "Selected item " \o ToString(index.n))
        ELSE IF index.n < n
        THEN /\ ret' = Ret("decode", "IndexError", FALSE, "")
             /\ UNCHANGED selected_item
        ELSE /\ ret' = Ret("decode", "none", FALSE, "Invalid item index")
             /\ UNCHANGED selected_item

\* the detail branch dropping the selection when the index is out of range
DetailBody_clears_on_invalid(data) ==
    LET index == Get(data, "index", IntV(0))
    IN  IF index.t # "int"
        THEN /\ ret' = Ret("decode", "TypeError", FALSE, "")
             /\ UNCHANGED selected_item
        ELSE IF 0 <= index.n /\ index.n < Len(page_data)
        THEN /\ selected_item' = <<page_data[index.n + 1]>>
             /\ ret' = Ret("decode", "none", TRUE, "Selected item " \o ToString(index.n))
        ELSE /\ ret' = Ret("decode", "none", FALSE, "Invalid item index")
             /\ selected_item' = <<>>

\* the detail branch refusing a token whose page is not the current page
DetailBody_checks_page(data) ==
    LET index == Get(data, "index", IntV(0))
        page == Get(data, "page", IntV(current_page))
    IN  IF index.t # "int"
        THEN /\ ret' = Ret("decode", "TypeError", FALSE, "")
             /\ UNCHANGED selected_item
        ELSE IF 0 <= index.n /\ index.n < Len(page_data) /\ page = IntV(current_page)
        THEN /\ selected_item' = <<page_data[index.n + 1]>>
             /\ ret' = Ret("decode", "none", TRUE, "Selected item " \o ToString(index.n))
        ELSE /\ ret' = Ret("decode", "none", FALSE, "Invalid item index")
             /\ UNCHANGED selected_item

\* the branch of _handle_callback for the action "detail"
DetailBody(data) ==
    LET index == Get(data, "index", IntV(0))
    IN  IF index.t # "int"
        THEN /\ ret' = Ret("decode", "TypeError", FALSE, "")
             /\ UNCHANGED selected_item
        ELSE IF 0 <= index.n /\ index.n < Len(page_data)
        THEN /\ selected_item' = <<page_data[index.n + 1]>>
             /\ ret' = Ret("decode", "none", TRUE, "Selected item " \o ToString(index.n))
        ELSE /\ ret' = Ret("decode", "none", FALSE, "Invalid item index")
             /\ UNCHANGED selected_item

NoPageChange ==
    UNCHANGED <<raw_data, page_size, filters, current_page, filtered, page_data, total_pages>>

\* the dispatch that takes a missing action for "next"
Dispatch_default_next(data) ==
    LET action == Get(data, "action", StrV("next"))
    IN  IF action = StrV("next")
        THEN /\ NextPageBody
             /\ UNCHANGED selected_item
             /\ ret' = IF current_page < total_pages
                       THEN Ret("decode", "none", TRUE, "Next page")
                       ELSE Ret("decode", "none", FALSE, "Already on last page")
        ELSE IF action = StrV("prev")
        THEN /\ PrevPageBody
             /\ UNCHANGED selected_item
             /\ ret' = IF current_page > 1
                       THEN Ret("decode", "none", TRUE, "Previous page")
                       ELSE Ret("decode", "none", FALSE, "Already on first page")
        ELSE IF action = StrV("detail")
        THEN /\ NoPageChange
             /\ DetailBody(data)
        ELSE /\ NoPageChange
             /\ UNCHANGED selected_item
             /\ ret' = Ret("decode", "none", FALSE, "Unknown action")

\* _handle_callback, from the deserialized data on
Dispatch(data) ==
    LET action == Get(data, "action", NoneV)
    IN  IF action = StrV("next")
        THEN /\ NextPageBody
             /\ UNCHANGED selected_item
             /\ ret' = IF current_page < total_pages
                       THEN Ret("decode", "none", TRUE, "Next page")
                       ELSE Ret("decode", "none", FALSE, "Already on last page")
        ELSE IF action = StrV("prev")
        THEN /\ PrevPageBody
             /\ UNCHANGED selected_item
             /\ ret' = IF current_page > 1
                       THEN Ret("decode", "none", TRUE, "Previous page")
                       ELSE Ret("decode", "none", FALSE, "Already on first page")
        ELSE IF action = StrV("detail")
        THEN /\ NoPageChange
             /\ DetailBody(data)
        ELSE /\ NoPageChange
             /\ UNCHANGED selected_item
             /\ ret' = Ret("decode", "none", FALSE, "Unknown action")

_handle_callback(callback_data) ==
    /\ phase = "ready"
    /\ UNCHANGED <<phase, fields, deserializer, handlers>>
    /\ arg' = TokenArg(callback_data)
    /\ LET parsed == IF callback_data.isstr THEN Deserialize(callback_data.text)
                     ELSE ParsedDict(callback_data.d)
           exc == DecodeException(deserializer)
       IN  IF ~parsed.ok
           THEN /\ NoPageChange
                /\ UNCHANGED selected_item
                /\ ret' = IF exc \in CaughtExceptions
                          THEN Ret("decode", "none", FALSE, "Invalid callback data")
                          ELSE Ret("decode", exc, FALSE, "")
           ELSE IF parsed.kind # "dict"
           THEN /\ NoPageChange
                /\ UNCHANGED selected_item
                /\ ret' = Ret("decode", "AttributeError", FALSE, "")
           ELSE Dispatch(parsed.d)
    /\ ForgetRendered
    /\ EndWalk
    /\ event' = NoEvent

\* the token of the button at a place of the grid rendered last
ButtonToken(row, col) ==
    LET text == rendered.grid[row][col].token
    IN  [isstr |-> TRUE, class |-> "button", text |-> text, d |-> json_loads(text).d,
         row |-> row, col |-> col]

\* the places of a grid: a row for each item of a page and one for navigation,
\* which has at most two buttons
GridRows == 1..(MaxPageSize + 1)
GridCols == 1..2

\* a button of the message rendered last is pressed: its token is given to
\* _handle_callback
press(row, col) ==
    /\ rendered.some
    /\ row \in DOMAIN rendered.grid
    /\ col \in DOMAIN rendered.grid[row]
    /\ _handle_callback(ButtonToken(row, col))

\* what awaiting the bool that the synchronous dbutton.handle_callback
\* returns raises
AwaitBool == "TypeError"

\* the callback events an adapter is given: their data is a string, of a
\* button or of one of the other kinds
EventTokens ==
    { StrToken([action |-> StrV("next")]), StrToken([action |-> StrV("prev")]),
      StrToken([action |-> StrV("detail"), index |-> IntV(0), page |-> IntV(1)]),
      StrToken([action |-> StrV("noop")]),
      ScalarToken(<<LexNull>>), MalformedToken(<<>>) }

\* handle_callback of the adapter of a framework, with the legacy
\* dbutton.handle_callback that it awaits.  The legacy method asks for one
\* edit of the message, with the output of build_message in the state after
\* the transition, when the callback was handled; the adapter's own edit
\* comes after the await.
handle_callback(adapter, tok) ==
    /\ phase = "ready"
    /\ adapter \in handlers
    /\ UNCHANGED <<phase, fields, deserializer, handlers>>
    /\ arg' = TokenArg(tok)
    /\ LET parsed == Deserialize(tok.text)
           exc == DecodeException(deserializer)
       IN  IF ~parsed.ok
           THEN /\ NoPageChange
                /\ UNCHANGED selected_item
                /\ ret' = IF exc \in CaughtExceptions
                          THEN Ret("handle_callback", "none", FALSE, "")
                          ELSE Ret("handle_callback", exc, FALSE, "")
                /\ event' = IF exc \in CaughtExceptions
                            THEN EventRaised(adapter, AwaitBool)
                            ELSE EventRaised(adapter, exc)
           ELSE IF parsed.kind # "dict"
           THEN /\ NoPageChange
                /\ UNCHANGED selected_item
                /\ ret' = Ret("decode", "AttributeError", FALSE, "")
                /\ event' = EventRaised(adapter, "AttributeError")
           ELSE /\ Dispatch(parsed.d)
                /\ event' =
                      IF ret'.raised # "none" THEN EventRaised(adapter, ret'.raised)
                      ELSE IF ~ret'.ok THEN EventRaised(adapter, AwaitBool)
                      ELSE IF Handler("python-telegram-bot") = "none"
                      THEN EventRaised(adapter, "ValueError")
                      ELSE [EventRaised(adapter, AwaitBool) EXCEPT !.edits = 1]
    /\ ForgetRendered
    /\ EndWalk

Next ==
    \/ \E d \in DataSources, fl \in FieldLists, ps \in PageSizes, f \in FilterSets,
          su \in Setups :
          Construct(d, fl, ps, f, su.deser, su.env)
    \/ \E f \in FilterSets : set_filters(f)
    \/ next_page
    \/ prev_page
    \/ \E fw \in FrameworkArgs : build_message(fw)
    \/ \E tok \in Tokens : _handle_callback(tok)
    \/ \E row \in GridRows, col \in GridCols : press(row, col)

Spec == Init /\ [][Next]_vars

TypeOK ==
    /\ phase \in {"new", "ready", "failed"}
    /\ deserializer \in Deserializers
    /\ handlers \in HandlerEnvs \cup {{}}
    /\ current_page \in 1..(MaxRecords + 1)
    /\ Len(selected_item) <= 1

(***************************************************************************)
(* handlers.py: a controller behind the adapter of a framework, which is    *)
(* given the callback events of the buttons.                                *)
(***************************************************************************)
AdapterNext ==
    \/ \E d \in DataSources, fl \in FieldLists, ps \in PageSizes, f \in FilterSets,
          su \in Setups :
          Construct(d, fl, ps, f, su.deser, su.env)
    \/ \E adapter \in Frameworks, tok \in EventTokens : handle_callback(adapter, tok)

SpecAdapter == Init /\ [][AdapterNext]_vars

(***************************************************************************)
(* utils.py called on its own: apply_filters and paginate applied to any    *)
(* record list, any filter set and any page, the pages past the last one    *)
(* included.  The variables hold the arguments and the results.             *)
(***************************************************************************)
\* the filter sets of the controller, and one that every record matches by a
\* field that none has
EngineFilterSets == FilterSets \cup { [f4 |-> StrV("")] }

\* the pages asked for: up to two past the last possible one
EnginePages == 1..(MaxRecords + 2)

EngineInit ==
    /\ phase = "engine"
    /\ raw_data \in DataSources
    /\ page_size \in PageSizes
    /\ fields = <<>>
    /\ filters = EmptyDict
    /\ current_page = 1
    /\ deserializer = "json"
    /\ handlers = {}
    /\ filtered = <<>>
    /\ page_data = <<>>
    /\ total_pages = 1
    /\ selected_item = <<>>
    /\ ret = Ret("none", "none", TRUE, "")
    /\ arg = NoArg
    /\ rendered = NoRender
    /\ event = NoEvent
    /\ walk = <<>>

\* page_data, total_pages = paginate(raw_data, page, page_size)
call_paginate(page) ==
    /\ phase = "engine"
    /\ current_page' = page
    /\ page_data' = paginate(raw_data, page, page_size).slice
    /\ total_pages' = paginate(raw_data, page, page_size).total_pages
    /\ ret' = Ret("paginate", "none", TRUE, "")
    /\ arg' = NoArg
    /\ UNCHANGED <<phase, raw_data, fields, page_size, filters, deserializer, handlers,
                   filtered, selected_item, rendered, event, walk>>

\* filtered = apply_filters(raw_data, f)
call_apply_filters(f) ==
    /\ phase = "engine"
    /\ filters' = f
    /\ filtered' = apply_filters(raw_data, f)
    /\ ret' = Ret("apply_filters", "none", TRUE, "")
    /\ arg' = FiltersArg(f)
    /\ UNCHANGED <<phase, raw_data, fields, page_size, current_page, deserializer,
                   handlers, page_data, total_pages, selected_item, rendered, event,
                   walk>>

EngineNext ==
    \/ \E page \in EnginePages : call_paginate(page)
    \/ \E f \in EngineFilterSets : call_apply_filters(f)

SpecEngine == EngineInit /\ [][EngineNext]_vars

(***************************************************************************)
(* Properties.                                                              *)
(***************************************************************************)
Ready == phase = "ready"

\* the call that led to this state returned (it did not raise)
Returned(op) == ret.op = op /\ ret.raised = "none"

\* two strings that differ at most in the case of their letters
CaseClasses == { {"Active", "ACTIVE", "active"}, {"Ann", "ann"} }
SameIgnoringCase(a, b) == a = b \/ \E c \in CaseClasses : a \in c /\ b \in c

\* the record has, for every key of f, the value of f, a missing field
\* counting as the empty string
RecordMatches(r, f) ==
    \A key \in DOMAIN f :
        SameIgnoringCase(IF key \in DOMAIN r THEN Str(r[key]) ELSE "", Str(f[key]))

\* the records that match f, in their original order
Matching(f) ==
    LET Test(r) == RecordMatches(r, f)
    IN  SelectSeq(raw_data, Test)

\* the number of records that match the current filters
MatchCount == Len(Matching(filters))

\* n = max(1, ceil(count / size))
IsPageCount(n, count, size) ==
    /\ n >= 1
    /\ n * size >= count
    /\ n = 1 \/ (n - 1) * size < count

\* C1: once constructed with page_size > 0, after any sequence of calls
\* 1 <= current_page <= total_pages, and total_pages is
\* max(1, ceil(filtered_count / page_size)) for the records that match the
\* current filters.
C1_PageInvariant ==
    Ready =>
        /\ 1 <= current_page
        /\ current_page <= total_pages
        /\ IsPageCount(total_pages, MatchCount, page_size)

\* a walk to the last page of a list that the filters shorten
C1_Witness ==
    /\ Ready
    /\ ret.op = "next_page" /\ ret.ok
    /\ current_page = 2 /\ total_pages = 2
    /\ 0 < MatchCount /\ MatchCount < Len(raw_data)

\* C2: once a controller is constructed none of its operations raises,
\* whatever the token or payload; every error is a return value.
C2_NeverRaises == Ready => ret.raised = "none"

\* C3: a string token that fails to deserialize, under the default or any
\* custom deserializer, is answered (false, "Invalid callback data") without
\* raising and with the state unchanged.
C3_MalformedIsReported ==
    [][(ret'.op = "decode" /\ arg'.class = "malformed") =>
          /\ ret' = Ret("decode", "none", FALSE, "Invalid callback data")
          /\ View' = View]_vars

\* C4: next_page returns true and adds exactly 1 to current_page when
\* current_page < total_pages, else returns false and changes nothing;
\* prev_page likewise with current_page > 1 and minus 1.
C4_NextPrevContract ==
    [][/\ ret'.op = "next_page" =>
            IF current_page < total_pages
            THEN ret'.ok /\ current_page' = current_page + 1
            ELSE ~ret'.ok /\ View' = View
       /\ ret'.op = "prev_page" =>
            IF current_page > 1
            THEN ret'.ok /\ current_page' = current_page - 1
            ELSE ~ret'.ok /\ View' = View]_vars

\* prev_page went back from the third page to the second
C4_Witness ==
    /\ Ready
    /\ ret.op = "prev_page" /\ ret.ok
    /\ current_page = 2 /\ total_pages = 3

\* the first n elements of a sequence, all of it when it is shorter
Take(seq, n) == SubSeq(seq, 1, Min(n, Len(seq)))

\* C5: set_filters(f) replaces the whole filter set by f, sets current_page
\* to 1 and leaves as page slice the first page_size records, in original
\* order, of those that match f ignoring case; total_pages is that of f.
C5_SetFilters ==
    [][ret'.op = "set_filters" =>
          LET f == arg'.kwargs
          IN  /\ filters' = f
              /\ DOMAIN filters' = DOMAIN f
              /\ current_page' = 1
              /\ page_data' = Take(Matching(f), page_size)
              /\ IsPageCount(total_pages', Len(Matching(f)), page_size)]_vars

\* a filter that differs in case from the data keeps the Ann records only
C5_Witness ==
    /\ Ready
    /\ ret.op = "set_filters"
    /\ filters = [status |-> StrV("ACTIVE")]
    /\ page_data # <<>>
    /\ Len(filtered) < Len(raw_data)
    /\ total_pages = 2

\* the call was a callback whose payload is a mapping with this action
DecodedAction(a) == ret.op = "decode" /\ arg.class = "mapping" /\ arg.action = a

\* C6: a "detail" callback with an integer index (0 when absent) selects the
\* record at that position of the page slice and answers
\* (true, "Selected item {index}") when 0 <= index < len(page slice);
\* otherwise it answers (false, "Invalid item index") and keeps
\* selected_item; current_page and filters never change.
C6_Detail ==
    [][(/\ ret'.op = "decode" /\ arg'.class = "mapping"
        /\ arg'.action = StrV("detail") /\ arg'.index.t \in {"int", "absent"}) =>
          LET index == IF arg'.index.t = "absent" THEN 0 ELSE arg'.index.n
          IN  /\ IF 0 <= index /\ index < Len(page_data)
                 THEN /\ selected_item' = <<page_data[index + 1]>>
                      /\ ret'.raised = "none" /\ ret'.ok
                      /\ ret'.msg = "Selected item " \o ToString(index)
                 ELSE /\ ret'.raised = "none" /\ ~ret'.ok
                      /\ ret'.msg = "Invalid item index"
                      /\ selected_item' = selected_item
              /\ current_page' = current_page
              /\ filters' = filters
              /\ page_data' = page_data]_vars

\* the second record of a page was selected
C6_Witness ==
    /\ Ready
    /\ DecodedAction(StrV("detail"))
    /\ arg.index = IntV(1)
    /\ ret.ok /\ ret.msg = "Selected item 1"
    /\ Len(page_data) = 2
    /\ selected_item = <<page_data[2]>>

\* C7: a "next" callback answers (true, "Next page") and advances one page
\* exactly when current_page < total_pages, else (false, "Already on last
\* page"); "prev" answers (true, "Previous page") and goes back one page
\* exactly when current_page > 1, else (false, "Already on first page"); a
\* missing or other action answers (false, "Unknown action") and changes
\* nothing.
C7_Navigation ==
    [][(ret'.op = "decode" /\ arg'.class = "mapping") =>
          CASE arg'.action = StrV("next") ->
                 IF current_page < total_pages
                 THEN /\ ret' = Ret("decode", "none", TRUE, "Next page")
                      /\ current_page' = current_page + 1
                 ELSE /\ ret' = Ret("decode", "none", FALSE, "Already on last page")
                      /\ View' = View
            [] arg'.action = StrV("prev") ->
                 IF current_page > 1
                 THEN /\ ret' = Ret("decode", "none", TRUE, "Previous page")
                      /\ current_page' = current_page - 1
                 ELSE /\ ret' = Ret("decode", "none", FALSE, "Already on first page")
                      /\ View' = View
            [] arg'.action = StrV("detail") -> TRUE
            [] OTHER ->
                 /\ ret' = Ret("decode", "none", FALSE, "Unknown action")
                 /\ View' = View]_vars

\* a payload without action was refused on a middle page
C7_Witness ==
    /\ Ready
    /\ DecodedAction(Absent)
    /\ ret.msg = "Unknown action"
    /\ current_page = 2 /\ total_pages = 3

\* the payload that a button token stands for
TokenPayload(token) == json_loads(token)

\* C8: the grid that render returns has one single-button row per record of
\* the page slice, the i-th labelled i with the token of
\* {action: "detail", index: i-1, page: current_page}, then at most one
\* navigation row: a prev button iff current_page > 1 and a next button iff
\* current_page < total_pages, prev first, no row when neither holds.
C8_ButtonGrid ==
    Returned("render") =>
        LET grid == ret.grid
            n == Len(page_data)
            hasPrev == current_page > 1
            hasNext == current_page < total_pages
            nav == (IF hasPrev THEN <<"prev">> ELSE <<>>)
                   \o (IF hasNext THEN <<"next">> ELSE <<>>)
        IN  /\ Len(grid) = n + (IF nav = <<>> THEN 0 ELSE 1)
            /\ \A i \in 1..n :
                  /\ Len(grid[i]) = 1
                  /\ grid[i][1].label = ToString(i)
                  /\ TokenPayload(grid[i][1].token)
                        = ParsedDict([action |-> StrV("detail"), index |-> IntV(i - 1),
                                      page |-> IntV(current_page)])
            /\ nav # <<>> =>
                  /\ Len(grid[n + 1]) = Len(nav)
                  /\ \A j \in 1..Len(nav) :
                        TokenPayload(grid[n + 1][j].token)
                           = ParsedDict([action |-> StrV(nav[j])])

\* a middle page of one record was rendered, with both navigation buttons
C8_Witness ==
    /\ Ready
    /\ Returned("render")
    /\ current_page = 2 /\ total_pages = 3
    /\ Len(ret.grid) = 2
    /\ Len(ret.grid[2]) = 2

\* C9: whenever no record matches the filters, total_pages and current_page
\* are 1 and render returns the no-data sentinel with a grid without rows.
C9_NoData ==
    (Ready /\ MatchCount = 0) =>
        /\ total_pages = 1
        /\ current_page = 1
        /\ Returned("render") => (ret.text = "No data available." /\ ret.grid = <<>>)

\* a filter that no record of a non-empty dataset matches was rendered
C9_Witness ==
    /\ Ready
    /\ Returned("render")
    /\ raw_data # <<>>
    /\ DOMAIN filters # {}
    /\ MatchCount = 0
    /\ ret.text = "No data available."

\* C10: render changes none of current_page, filters, total_pages, the page
\* slice and selected_item, and a render that follows another with no call
\* in between returns the same text and the same grid.
C10_RenderIsPure ==
    [][ret'.op = "render" =>
          /\ View' = View
          /\ (ret'.raised = "none" /\ rendered.some) =>
                (ret'.text = rendered.text /\ ret'.grid = rendered.grid)]_vars

\* a second render in a row, after a selection on a non-empty page
C10_Witness ==
    /\ Ready
    /\ Returned("render")
    /\ rendered.twice
    /\ selected_item # <<>>
    /\ page_data # <<>>
    /\ current_page > 1

\* C11: construction fails with a validation error exactly when more than 10
\* fields are given, and right after a successful construction current_page
\* is 1, filters are the given filter set and selected_item exists and holds
\* no selection.
C11_Construction ==
    ret.op = "construct" =>
        /\ (ret.raised = "ValueError") = (Len(arg.fields) > 10)
        /\ ret.raised \in {"none", "ValueError"}
        /\ ret.raised = "none" =>
              /\ Ready
              /\ current_page = 1
              /\ filters = arg.kwargs
              /\ selected_item = <<NoSelection>>

\* the slices of pages first..last of data, one after the other
RECURSIVE ConcatPages(_, _, _, _)
ConcatPages(data, first, last, size) ==
    IF first > last THEN <<>>
    ELSE paginate(data, first, size).slice \o ConcatPages(data, first + 1, last, size)

\* the elements of data at the 0-based positions from..(to - 1) that exist
Positions(data, from, to) ==
    [i \in 1..(Min(to, Len(data)) - Min(from, Len(data))) |-> data[from + i]]

\* C12: for every record list R and page_size > 0, with
\* total_pages = max(1, ceil(len(R) / page_size)), the slices of the pages
\* 1..total_pages, in page order, make up R exactly, and a page past
\* total_pages gives an empty slice.
C12_PaginatePartition ==
    ret.op = "paginate" =>
        /\ IsPageCount(total_pages, Len(raw_data), page_size)
        /\ page_data = Positions(raw_data, (current_page - 1) * page_size,
                                 current_page * page_size)
        /\ ConcatPages(raw_data, 1, total_pages, page_size) = raw_data
        /\ current_page > total_pages => page_data = <<>>

\* a page past the last one of a list of three records in pages of two
C12_Witness ==
    /\ phase = "engine"
    /\ ret.op = "paginate"
    /\ Len(raw_data) = 3 /\ page_size = 2
    /\ total_pages = 2 /\ current_page = 4
    /\ page_data = <<>>

\* C13: apply_filters(R, f) returns, in the order of R, exactly the records
\* whose stringified value equals, ignoring case, the stringified filter
\* value for every key of f, a missing field counting as the empty string;
\* with an empty f the result equals R; R is not modified.
C13_ApplyFilters ==
    [][ret'.op = "apply_filters" =>
          /\ filtered' = Matching(arg'.kwargs)
          /\ DOMAIN arg'.kwargs = {} => filtered' = raw_data
          /\ raw_data' = raw_data]_vars

\* a filter on a field that no record has keeps both kinds of record
C13_Witness ==
    /\ phase = "engine"
    /\ ret.op = "apply_filters"
    /\ filters = [f4 |-> StrV("")]
    /\ filtered = <<Ann, Cy, Ann>>

\* the controller handled the callback of the last event
EventHandled == ret.op = "decode" /\ ret.raised = "none" /\ ret.ok

\* C14: for a well-formed callback event an adapter's handle_callback
\* completes without raising; it returns True exactly when the controller
\* handled the callback, the message then having been edited to the render of
\* the state after the transition, and returns False with no edit otherwise.
C14_AdapterContract ==
    (event.adapter # "none" /\ arg.class = "mapping") =>
        /\ event.raised = "none"
        /\ event.returned = (IF EventHandled THEN "True" ELSE "False")
        /\ EventHandled => event.edits > 0
        /\ ~EventHandled => event.edits = 0

\* C15: in every state reachable through construction, set_filters,
\* next_page, prev_page and callbacks, the stored filtered list is
\* apply_filters(raw_data, filters) and the stored page slice is the records
\* of the filtered list at positions (current_page - 1) * page_size up to
\* current_page * page_size; so the slice is non-empty whenever a record
\* matches the filters.
C15_DerivedState ==
    Ready =>
        /\ filtered = Matching(filters)
        /\ page_data = Positions(filtered, (current_page - 1) * page_size,
                                 current_page * page_size)
        /\ MatchCount > 0 => page_data # <<>>

\* a callback has moved to the second page of a filtered list
C15_Witness ==
    /\ Ready
    /\ ret.op = "decode" /\ ret.ok /\ arg.action = StrV("next")
    /\ current_page = 2
    /\ DOMAIN filters # {}
    /\ Len(filtered) < Len(raw_data)
    /\ page_data # <<>>

\* the slices of a walk, one after the other
RECURSIVE Flatten(_)
Flatten(slices) ==
    IF slices = <<>> THEN <<>> ELSE Head(slices) \o Flatten(Tail(slices))

\* C16: from page 1, after construction or set_filters, repeated next_page
\* calls walk the pages: a call returns true while fewer than total_pages
\* pages have been seen and false once total_pages have, so exactly
\* total_pages - 1 calls return true; the slices seen are the filtered
\* records in order, all of them when the call returns false, and every
\* slice but the last seen has page_size records.
C16_Walk ==
    (Ready /\ walk # <<>>) =>
        /\ Len(walk) = current_page
        /\ Len(walk) <= total_pages
        /\ \A i \in 1..(Len(walk) - 1) : Len(walk[i]) = page_size
        /\ Flatten(walk) = Take(Matching(filters), Len(Flatten(walk)))
        /\ walk[Len(walk)] = page_data
        /\ (ret.op = "next_page" /\ ret.ok) => Len(walk) > 1
        /\ (ret.op = "next_page" /\ ~ret.ok) =>
              /\ Len(walk) = total_pages
              /\ Flatten(walk) = Matching(filters)

\* three records in pages of two: one call returned true, the next one false,
\* and the last page is the shorter one
C16_Witness ==
    /\ Ready
    /\ ret.op = "next_page" /\ ~ret.ok
    /\ page_size = 2
    /\ Len(walk) = 2 /\ Len(walk[1]) = 2 /\ Len(walk[2]) = 1
    /\ Flatten(walk) = raw_data

\* the payload that build_message serializes for the button at a row and
\* column of the grid
ButtonPayload(row, col) ==
    IF row <= Len(page_data)
    THEN [action |-> StrV("detail"), index |-> IntV(row - 1), page |-> IntV(current_page)]
    ELSE IF current_page > 1 /\ col = 1 THEN [action |-> StrV("prev")]
    ELSE [action |-> StrV("next")]

\* C17: every button of a render is live: decoded with no call in between,
\* its token deserializes to the payload that was serialized and the
\* callback is handled; the item button numbered i makes selected_item the
\* record of text line i, the next button moves to current_page + 1 and the
\* prev button to current_page - 1.
C17_ButtonsLive ==
    [][(ret'.op = "decode" /\ arg'.class = "button") =>
          LET row == arg'.row
              col == arg'.col
              button == rendered.grid[row][col]
              payload == ButtonPayload(row, col)
          IN  /\ rendered.some /\ rendered.text = MessageText
              /\ Deserialize(button.token) = ParsedDict(payload)
              /\ ret'.raised = "none" /\ ret'.ok
              /\ row <= Len(page_data) =>
                    /\ button.label = ToString(row)
                    /\ selected_item' = <<page_data[row]>>
                    /\ current_page' = current_page
              /\ button.label = ">>" =>
                    /\ payload.action = StrV("next")
                    /\ current_page' = current_page + 1
              /\ button.label = "<<" =>
                    /\ payload.action = StrV("prev")
                    /\ current_page' = current_page - 1
              /\ button.label \in {ToString(row), ">>", "<<"}]_vars

\* the second item button of a page of two different records was pressed
C17_Witness ==
    /\ ret.op = "decode" /\ ret.ok
    /\ arg.class = "button" /\ arg.row = 2
    /\ Len(page_data) = 2 /\ page_data[1] # page_data[2]
    /\ selected_item = <<page_data[2]>>

\* C18: whenever _handle_callback returns handled = false (malformed token,
\* unknown or missing action, navigation past the first or last page, item
\* index out of range), the state after the call is the state before it:
\* current_page, filters, total_pages, page slice and selected_item are
\* unchanged.
C18_UnhandledKeepsState ==
    [][(ret'.op = "decode" /\ ret'.raised = "none" /\ ~ret'.ok) =>
          /\ View' = View
          /\ ret'.msg \in {"Invalid callback data", "Unknown action",
                           "Already on first page", "Already on last page",
                           "Invalid item index"}]_vars

\* an item index out of range was refused on the second page while a record
\* was selected
C18_Witness ==
    /\ ret.op = "decode" /\ ret.raised = "none" /\ ~ret.ok
    /\ ret.msg = "Invalid item index"
    /\ current_page = 2
    /\ selected_item # <<>>

\* whether a token with this action and index is handled in the current state
HandledNow(action, index) ==
    CASE action = StrV("next") -> current_page < total_pages
      [] action = StrV("prev") -> current_page > 1
      [] action = StrV("detail") -> 0 <= index /\ index < Len(page_data)
      [] OTHER -> FALSE

\* C19: the outcome and the state change of _handle_callback depend only on
\* the token's action and index and on the state at decode time: whatever the
\* token's page field and whatever was rendered or decoded before, a detail
\* token selects the record at its index of the current page slice, and a
\* token is applied each time it is decoded.
C19_TokensStateless ==
    [][(/\ ret'.op = "decode"
        /\ arg'.class \in {"mapping", "button"}
        /\ arg'.index.t \in {"int", "absent"}) =>
          LET action == arg'.action
              index == IF arg'.index.t = "int" THEN arg'.index.n ELSE 0
              handled == HandledNow(action, index)
          IN  /\ ret'.raised = "none"
              /\ ret'.ok = handled
              /\ current_page' =
                    IF handled /\ action = StrV("next") THEN current_page + 1
                    ELSE IF handled /\ action = StrV("prev") THEN current_page - 1
                    ELSE current_page
              /\ selected_item' =
                    IF handled /\ action = StrV("detail") THEN <<page_data[index + 1]>>
                    ELSE selected_item
              /\ filters' = filters
              /\ raw_data' = raw_data]_vars

\* a detail token made for page 1 was decoded on page 2, with no render
\* before it, and selected a record of page 2
C19_Witness ==
    /\ ret.op = "decode" /\ ret.ok
    /\ arg.class = "mapping"
    /\ arg.action = StrV("detail") /\ arg.page = IntV(1) /\ arg.index = IntV(0)
    /\ current_page = 2
    /\ selected_item = <<page_data[1]>>
    /\ page_data # Take(filtered, page_size)

\* C20: selected_item is written only by a handled detail callback:
\* construction, set_filters, next_page, prev_page, build_message and every
\* unhandled callback leave it as it is, so after a page or filter change it
\* may be a record that is not in the page slice or does not match the
\* filters.
C20_SelectionFrame ==
    [][selected_item' # selected_item =>
          /\ ret'.op = "decode" /\ ret'.raised = "none" /\ ret'.ok
          /\ arg'.action = StrV("detail")
          /\ \E i \in 1..Len(page_data) : selected_item' = <<page_data[i]>>]_vars

\* after set_filters the selected record does not match the filters and is
\* not in the page slice
C20_Witness ==
    /\ ret.op = "set_filters"
    /\ selected_item # <<>>
    /\ ~RecordMatches(selected_item[1], filters)
    /\ \A i \in 1..Len(page_data) : page_data[i] # selected_item[1]
    /\ page_data # <<>>

====
